---- MODULE Spec2Model ----
(* Model of the DeCLUTR span sampler (sample_anchor_positives) and of the   *)
(* contrastive training step (ContrastiveTextEncoder).                      *)
EXTENDS Integers, Sequences, FiniteSets, TLC

(***************************************************************************)
(* Bounds of the model.                                                    *)
(***************************************************************************)
\* Longest document that is sampled from.
MaxTokens == 10
\* Largest num_spans passed to the sampler.
MaxSpans == 1
\* np.random.beta(a, b) with a, b > 1 is a real of [0, 1) (the distribution has no
\* mass at 1); the model draws k / BetaDen with k in 0..BetaDen - 1.
BetaDen == 4
\* min_span_len and max_span_len are drawn from -MaxNegLen upwards.
MaxNegLen == 1
\* Largest number of positive groups (anchors of the batch) given to forward.
MaxGroups == 2
\* Number of data-parallel replicas.
NumReplicas == 2

\* contrastive_utils.py:48, documents shorter than this are rejected.
MinTokens == 10

Strategies == {"free", "subsuming", "adjacent"}
NumTokensSet == (MinTokens - 1)..MaxTokens
SpanLens == (0 - MaxNegLen)..(MaxTokens + 1)
BetaDraws == 0..(BetaDen - 1)

NoSpan == [start |-> -1, end |-> -1, set |-> FALSE]
Span(s, e) == [start |-> s, end |-> e, set |-> TRUE]
NoArgs == [num_tokens |-> 0, max_span_len |-> 0, min_span_len |-> 0,
           num_spans |-> 0, sampling_strategy |-> "free"]

VARIABLES
    pc,          \* position of the sampler: "idle", "anchor", "positive", "done"
    args,        \* arguments of the current call (num_tokens is len(tokens))
    anchor,      \* anchor_start / anchor_end of the current call
    positives,   \* the ranges appended to `positives` so far
    drawn_length, \* <<L>>: the value of positive_length, <<>> before the first draw
    outcome,     \* "none", "returned", "InvalidInput", "RangeError", "IndexError"
    draws,       \* random draws made by the current call
    warnCalls,   \* logger.warning_once calls made by the current call
    warned,      \* process-wide: the logger has displayed the clamp warning
    model,       \* the ContrastiveTextEncoder: construction outcome and configuration
    training,    \* self.training of the encoder
    fpc,         \* position of forward
    batch,       \* arguments of the current forward call
    output_dict, \* the output dictionary of the current forward call
    fwd,         \* locals of the current forward call
    events,      \* collaborators invoked by the current forward call, in order
    replicas,    \* data-parallel step: the forward call of each replica
    arrived      \* data-parallel step: the replicas blocked in the gather

svars == <<pc, args, anchor, positives, drawn_length, outcome, draws, warnCalls, warned>>
mvars == <<model, training, fpc, batch, output_dict, fwd, events>>
pvars == <<replicas, arrived>>
vars == <<pc, args, anchor, positives, drawn_length, outcome, draws, warnCalls, warned,
          model, training, fpc, batch, output_dict, fwd, events,
          replicas, arrived>>

Max2(a, b) == IF a >= b THEN a ELSE b
Min2(a, b) == IF a <= b THEN a ELSE b

\* Python's int() on the quotient a / d (d > 0): truncation towards zero.
IntTrunc(a, d) == IF a >= 0 THEN a \div d ELSE -((-a) \div d)

\* int(beta * (hi - lo) + lo) with beta = k / BetaDen.
BetaLength(k, lo, hi) == IntTrunc(k * (hi - lo) + lo * BetaDen, BetaDen)

\* The input checks without the one on max_span_len against the document length.
InvalidInputNoLengthCheck(num_tokens, max_span_len, min_span_len) ==
    \/ num_tokens < MinTokens
    \/ min_span_len > max_span_len

\* The three input checks, lines 48-62.
InvalidInput(num_tokens, max_span_len, min_span_len) ==
    \/ num_tokens < MinTokens
    \/ min_span_len > max_span_len
    \/ max_span_len > num_tokens

\* randint(0, num_tokens - anchor_length): the admissible anchor starts.
AnchorStarts(num_tokens, anchor_length) == 0..(num_tokens - anchor_length)

\* subsuming starts whose upper end forgets the length of the positive.
SubsumingStartsToAnchorEnd(anchor_start, anchor_end, positive_length, num_tokens) ==
    anchor_start..anchor_end

\* subsuming: randint(anchor_start, anchor_end - positive_length).
SubsumingStarts(anchor_start, anchor_end, positive_length, num_tokens) ==
    anchor_start..(anchor_end - positive_length)

\* adjacent: min(max_span_len, max(anchor_start, num_tokens - anchor_end)).
MaxPositiveLen(max_span_len, anchor_start, anchor_end, num_tokens) ==
    Min2(max_span_len, Max2(anchor_start, num_tokens - anchor_end))

\* valid_starts that admits anchor_end without looking at the end of the document.
ValidStartsUnchecked(anchor_start, anchor_end, positive_length, num_tokens) ==
    (IF anchor_start - positive_length > 0
        THEN {anchor_start - positive_length} ELSE {})
    \cup {anchor_end}

\* adjacent: the list valid_starts.
ValidStarts(anchor_start, anchor_end, positive_length, num_tokens) ==
    (IF anchor_start - positive_length > 0
        THEN {anchor_start - positive_length} ELSE {})
    \cup
    (IF anchor_end + positive_length <= num_tokens
        THEN {anchor_end} ELSE {})

\* free starts that are not kept off the end of the document.
FreeStartsUnclamped(anchor_start, anchor_end, positive_length, num_tokens) ==
    Max2(0, anchor_start - positive_length)..anchor_end

\* free: randint(max(0, anchor_start - L_p), min(anchor_end, num_tokens - L_p)).
FreeStarts(anchor_start, anchor_end, positive_length, num_tokens) ==
    Max2(0, anchor_start - positive_length)..
        Min2(anchor_end, num_tokens - positive_length)

SInit ==
    /\ pc = "idle"
    /\ args = NoArgs
    /\ anchor = NoSpan
    /\ positives = <<>>
    /\ drawn_length = <<>>
    /\ outcome = "none"
    /\ draws = 0
    /\ warnCalls = 0
    /\ warned = FALSE

\* Entry of sample_anchor_positives: tokenize and validate (lines 42-62).
Call ==
    /\ pc = "idle"
    /\ \E n \in NumTokensSet, mx \in SpanLens, mn \in SpanLens,
          ns \in 0..MaxSpans, st \in Strategies :
        /\ args' = [num_tokens |-> n, max_span_len |-> mx, min_span_len |-> mn,
                    num_spans |-> ns, sampling_strategy |-> st]
        /\ IF InvalidInput(n, mx, mn)
              THEN pc' = "done" /\ outcome' = "InvalidInput"
              ELSE pc' = "anchor" /\ outcome' = "none"
    /\ anchor' = NoSpan
    /\ positives' = <<>>
    /\ drawn_length' = <<>>
    /\ draws' = 0
    /\ warnCalls' = 0
    /\ UNCHANGED warned
    /\ UNCHANGED mvars
    /\ UNCHANGED pvars

\* Lines 67-70: draw the anchor length and start.
DrawAnchor ==
    /\ pc = "anchor"
    /\ \E k \in BetaDraws :
        LET anchor_length == BetaLength(k, args.min_span_len, args.max_span_len)
            starts == AnchorStarts(args.num_tokens, anchor_length)
        IN  IF starts = {}
              THEN /\ pc' = "done" /\ outcome' = "RangeError"
                   /\ draws' = draws + 1
                   /\ UNCHANGED anchor
              ELSE \E anchor_start \in starts :
                   /\ anchor' = Span(anchor_start, anchor_start + anchor_length)
                   /\ draws' = draws + 2
                   /\ pc' = "positive"
                   /\ UNCHANGED outcome
    /\ UNCHANGED <<args, positives, drawn_length, warnCalls, warned>>
    /\ UNCHANGED mvars
    /\ UNCHANGED pvars

\* One iteration of the loop of lines 75-117 under sampling_strategy "subsuming".
DrawSubsuming ==
    /\ pc = "positive" /\ Len(positives) < args.num_spans
    /\ args.sampling_strategy = "subsuming"
    /\ \E k \in BetaDraws :
        LET positive_length == BetaLength(k, args.min_span_len, args.max_span_len)
            starts == SubsumingStarts(anchor.start, anchor.end, positive_length,
                                      args.num_tokens)
        IN  /\ drawn_length' = <<positive_length>>
            /\ IF starts = {}
                  THEN /\ pc' = "done" /\ outcome' = "RangeError"
                       /\ draws' = draws + 1
                       /\ UNCHANGED positives
                  ELSE \E positive_start \in starts :
                       /\ positives' = Append(positives,
                             Span(positive_start, positive_start + positive_length))
                       /\ draws' = draws + 2
                       /\ UNCHANGED <<pc, outcome>>
    /\ UNCHANGED <<args, anchor, warnCalls, warned>>
    /\ UNCHANGED mvars
    /\ UNCHANGED pvars

\* One iteration of the loop under sampling_strategy "adjacent" (lines 82-107).
DrawAdjacent ==
    /\ pc = "positive" /\ Len(positives) < args.num_spans
    /\ args.sampling_strategy = "adjacent"
    /\ \E k1 \in BetaDraws, k2 \in BetaDraws :
        LET first_length == BetaLength(k1, args.min_span_len, args.max_span_len)
            max_positive_len == MaxPositiveLen(args.max_span_len, anchor.start,
                                               anchor.end, args.num_tokens)
            positive_length == BetaLength(k2, args.min_span_len, max_positive_len)
            starts == ValidStarts(anchor.start, anchor.end, positive_length,
                                  args.num_tokens)
        IN  /\ drawn_length' = <<positive_length>>
            /\ IF first_length > max_positive_len
                  THEN warnCalls' = warnCalls + 1 /\ warned' = TRUE
                  ELSE UNCHANGED <<warnCalls, warned>>
            /\ IF starts = {}
                  THEN /\ pc' = "done" /\ outcome' = "IndexError"
                       /\ draws' = draws + 2
                       /\ UNCHANGED positives
                  ELSE \E positive_start \in starts :
                       /\ positives' = Append(positives,
                             Span(positive_start, positive_start + positive_length))
                       /\ draws' = draws + 3
                       /\ UNCHANGED <<pc, outcome>>
    /\ UNCHANGED <<args, anchor>>
    /\ UNCHANGED mvars
    /\ UNCHANGED pvars

\* One iteration of the loop under the default strategy (lines 108-114).
DrawFree ==
    /\ pc = "positive" /\ Len(positives) < args.num_spans
    /\ args.sampling_strategy = "free"
    /\ \E k \in BetaDraws :
        LET positive_length == BetaLength(k, args.min_span_len, args.max_span_len)
            starts == FreeStarts(anchor.start, anchor.end, positive_length,
                                 args.num_tokens)
        IN  /\ drawn_length' = <<positive_length>>
            /\ IF starts = {}
                  THEN /\ pc' = "done" /\ outcome' = "RangeError"
                       /\ draws' = draws + 1
                       /\ UNCHANGED positives
                  ELSE \E positive_start \in starts :
                       /\ positives' = Append(positives,
                             Span(positive_start, positive_start + positive_length))
                       /\ draws' = draws + 2
                       /\ UNCHANGED <<pc, outcome>>
    /\ UNCHANGED <<args, anchor, warnCalls, warned>>
    /\ UNCHANGED mvars
    /\ UNCHANGED pvars

\* Line 119: the loop is over, return (anchor, positives).
Return ==
    /\ pc = "positive" /\ Len(positives) = args.num_spans
    /\ pc' = "done"
    /\ outcome' = "returned"
    /\ UNCHANGED <<args, anchor, positives, drawn_length, draws, warnCalls, warned>>
    /\ UNCHANGED mvars
    /\ UNCHANGED pvars

\* The caller takes the result (or catches the exception); the frame of the call
\* is gone, only the logger's flag outlives it.
Finish ==
    /\ pc = "done"
    /\ pc' = "idle"
    /\ args' = NoArgs
    /\ anchor' = NoSpan
    /\ positives' = <<>>
    /\ drawn_length' = <<>>
    /\ outcome' = "none"
    /\ draws' = 0
    /\ warnCalls' = 0
    /\ UNCHANGED warned
    /\ UNCHANGED mvars
    /\ UNCHANGED pvars

SNext ==
    \/ Call
    \/ DrawAnchor
    \/ DrawSubsuming
    \/ DrawAdjacent
    \/ DrawFree
    \/ Return
    \/ Finish

(***************************************************************************)
(* The contrastive training step: ContrastiveTextEncoder.                  *)
(***************************************************************************)
None == "None"
MLMLoss == "masked_lm_loss"

\* output_dict["loss"] is kept as the count of each term added to the initial 0.
ZeroLoss == [contrastive |-> 0, mlm_anchors |-> 0, mlm_positives |-> 0]
AddTerm(l, t) == [l EXCEPT ![t] = @ + 1]

\* output_dict[k] = v
Put(d, k, v) == (k :> v) @@ d
EmptyDict == <<>>

NoModel == [state |-> "none", feedforward |-> FALSE, miner |-> FALSE,
            loss |-> FALSE, masked_language_modeling |-> FALSE]
NoBatch == [positives |-> FALSE, groups |-> 0]
NoLocals == [masked |-> FALSE, masked_lm_loss |-> None, embedded_anchors |-> None,
             encoded |-> 0, discarded |-> 0]

\* A constructor check that only looks at the contrastive loss.
ConfigurationErrorLossOnly(loss, masked_language_modeling) ==
    ~loss

\* __init__, line 81: neither a contrastive loss nor the masked language objective.
ConfigurationError(loss, masked_language_modeling) ==
    ~loss /\ ~masked_language_modeling

\* forward, line 120: the anchors are masked.
MaskAnchors(is_training, masked_language_modeling) ==
    is_training /\ masked_language_modeling

\* forward, line 128: `self.training and positives`.
ComputeLoss(is_training, positives_supplied) ==
    is_training /\ positives_supplied

\* The masked-language loss the text field embedder returns for a batch of tokens:
\* none without the objective, one for masked tokens (they carry labels), and
\* either for unmasked tokens.
EmbedderLosses(masked_language_modeling, is_masked) ==
    IF ~masked_language_modeling THEN {None}
    ELSE IF is_masked THEN {MLMLoss}
    ELSE {None, MLMLoss}

\* _forward_internal keeping the embeddings in training mode too.
ForwardInternalAlwaysKeeps(tokens, d, has_dict, is_training, feedforward) ==
    LET d1 == IF has_dict THEN Put(d, "embeddings", tokens) ELSE d
    IN  IF feedforward /\ has_dict /\ ~is_training
            THEN Put(d1, "projections", tokens) ELSE d1

\* _forward_internal, lines 169-181: what it leaves in the dictionary it is given
\* (has_dict is `output_dict is not None`).
ForwardInternal(tokens, d, has_dict, is_training, feedforward) ==
    LET d1 == IF has_dict /\ ~is_training THEN Put(d, "embeddings", tokens) ELSE d
    IN  IF feedforward /\ has_dict /\ ~is_training
            THEN Put(d1, "projections", tokens) ELSE d1

\* _forward_internal, lines 178-183: the representation it returns.
EmbeddedText(feedforward) == IF feedforward THEN "projections" ELSE "embeddings"

MInit ==
    /\ model = NoModel
    /\ training = TRUE
    /\ fpc = "idle"
    /\ batch = NoBatch
    /\ output_dict = EmptyDict
    /\ fwd = NoLocals
    /\ events = <<>>

\* __init__, lines 55-89. A module is in training mode once constructed.
Construct ==
    /\ model.state # "ok"
    /\ \E ff \in BOOLEAN, mi \in BOOLEAN, lo \in BOOLEAN, mlm \in BOOLEAN :
        model' = [state |-> IF ConfigurationError(lo, mlm)
                               THEN "ConfigurationError" ELSE "ok",
                  feedforward |-> ff, miner |-> mi, loss |-> lo,
                  masked_language_modeling |-> mlm]
    /\ training' = TRUE
    /\ UNCHANGED <<fpc, batch, output_dict, fwd, events>>
    /\ UNCHANGED svars
    /\ UNCHANGED pvars

\* model.train() / model.eval() between two forward calls.
SetTraining ==
    /\ model.state = "ok" /\ fpc = "idle"
    /\ training' = ~training
    /\ UNCHANGED <<model, fpc, batch, output_dict, fwd, events>>
    /\ UNCHANGED svars
    /\ UNCHANGED pvars

\* forward, lines 117-124: mask the anchors when training with the masked language
\* objective, then encode them with the output dictionary.
ForwardAnchors ==
    /\ model.state = "ok" /\ fpc = "idle"
    /\ \E sup \in BOOLEAN, g \in 1..MaxGroups :
        batch' = [positives |-> sup, groups |-> IF sup THEN g ELSE 0]
    /\ LET is_masked == MaskAnchors(training, model.masked_language_modeling)
       IN  \E l \in EmbedderLosses(model.masked_language_modeling, is_masked) :
            fwd' = [masked |-> is_masked, masked_lm_loss |-> l,
                    embedded_anchors |-> EmbeddedText(model.feedforward),
                    encoded |-> 0, discarded |-> 0]
    /\ output_dict' = ForwardInternal("anchors", EmptyDict, TRUE, training,
                                      model.feedforward)
    /\ events' = <<>>
    /\ fpc' = "branch"
    /\ UNCHANGED <<model, training>>
    /\ UNCHANGED svars
    /\ UNCHANGED pvars

\* forward, lines 128-131: decide whether a loss is computed.
Branch ==
    /\ fpc = "branch"
    /\ IF ComputeLoss(training, batch.positives)
          THEN /\ output_dict' = Put(output_dict, "loss", ZeroLoss)
               /\ fpc' = IF model.loss THEN "positives" ELSE "mlm"
          ELSE /\ fpc' = "return"
               /\ UNCHANGED output_dict
    /\ UNCHANGED <<model, training, batch, fwd, events>>
    /\ UNCHANGED svars
    /\ UNCHANGED pvars

\* Encoding a group of positive chunks and adding the loss the embedder returns.
EncodePositivesAddingLoss ==
    /\ fpc = "positives" /\ fwd.encoded < batch.groups
    /\ \E l \in EmbedderLosses(model.masked_language_modeling, FALSE) :
        /\ fwd' = [fwd EXCEPT !.encoded = @ + 1,
                              !.discarded = IF l = None THEN @ ELSE @ + 1]
        /\ output_dict' = IF l = None THEN output_dict
                          ELSE Put(output_dict, "loss",
                                   AddTerm(output_dict["loss"], "mlm_positives"))
    /\ UNCHANGED <<model, training, fpc, batch, events>>
    /\ UNCHANGED svars
    /\ UNCHANGED pvars

\* forward, lines 133-137: encode one group of positive chunks (no dictionary is
\* passed, the loss the embedder returns is dropped) and mean-pool it.
EncodePositives ==
    /\ fpc = "positives" /\ fwd.encoded < batch.groups
    /\ \E l \in EmbedderLosses(model.masked_language_modeling, FALSE) :
        fwd' = [fwd EXCEPT !.encoded = @ + 1,
                           !.discarded = IF l = None THEN @ ELSE @ + 1]
    /\ output_dict' = ForwardInternal("positives", output_dict, FALSE, training,
                                      model.feedforward)
    /\ UNCHANGED <<model, training, fpc, batch, events>>
    /\ UNCHANGED svars
    /\ UNCHANGED pvars

\* forward, lines 138-146: stack the positives, gather from every replica.
Gather ==
    /\ fpc = "positives" /\ fwd.encoded = batch.groups
    /\ events' = Append(events, "gather")
    /\ fpc' = "miner"
    /\ UNCHANGED <<model, training, batch, output_dict, fwd>>
    /\ UNCHANGED svars
    /\ UNCHANGED pvars

\* forward, lines 149-152: labels, then the optional miner.
Mine ==
    /\ fpc = "miner"
    /\ events' = IF model.miner THEN Append(events, "miner") ELSE events
    /\ fpc' = "loss"
    /\ UNCHANGED <<model, training, batch, output_dict, fwd>>
    /\ UNCHANGED svars
    /\ UNCHANGED pvars

\* forward, line 153: add the contrastive loss.
ContrastiveLoss ==
    /\ fpc = "loss"
    /\ output_dict' = Put(output_dict, "loss",
                          AddTerm(output_dict["loss"], "contrastive"))
    /\ events' = Append(events, "loss")
    /\ fpc' = "mlm"
    /\ UNCHANGED <<model, training, batch, fwd>>
    /\ UNCHANGED svars
    /\ UNCHANGED pvars

\* forward, lines 155-156: add the masked language loss of the anchors.
AddMaskedLMLoss ==
    /\ fpc = "mlm"
    /\ output_dict' = IF fwd.masked_lm_loss # None
                         THEN Put(output_dict, "loss",
                                  AddTerm(output_dict["loss"], "mlm_anchors"))
                         ELSE output_dict
    /\ fpc' = "return"
    /\ UNCHANGED <<model, training, batch, fwd, events>>
    /\ UNCHANGED svars
    /\ UNCHANGED pvars

\* forward, line 158.
ForwardReturn ==
    /\ fpc = "return"
    /\ fpc' = "done"
    /\ UNCHANGED <<model, training, batch, output_dict, fwd, events>>
    /\ UNCHANGED svars
    /\ UNCHANGED pvars

\* The caller takes the output dictionary; the frame of the call is gone.
ForwardFinish ==
    /\ fpc = "done"
    /\ fpc' = "idle"
    /\ batch' = NoBatch
    /\ output_dict' = EmptyDict
    /\ fwd' = NoLocals
    /\ events' = <<>>
    /\ UNCHANGED <<model, training>>
    /\ UNCHANGED svars
    /\ UNCHANGED pvars

EncoderNext ==
    \/ Construct
    \/ SetTraining
    \/ ForwardAnchors
    \/ Branch
    \/ EncodePositives
    \/ Gather
    \/ Mine
    \/ ContrastiveLoss
    \/ AddMaskedLMLoss
    \/ ForwardReturn
    \/ ForwardFinish

(***************************************************************************)
(* The data-parallel training step: every replica runs forward on its own  *)
(* shard of the batch; the gather is a blocking collective.                *)
(***************************************************************************)
Replicas == 1..NumReplicas

IdleReplica == [pc |-> "idle", training |-> TRUE, positives |-> FALSE, groups |-> 0,
                encoded |-> 0, masked_lm_loss |-> None, embedded |-> {},
                loss_on |-> {}, output_dict |-> EmptyDict, events |-> <<>>]

\* A forward call that gathers whenever a loss is computed, configured or not.
GathersWithoutLoss(is_training, positives_supplied, loss) ==
    ComputeLoss(is_training, positives_supplied)

\* forward, lines 128-130: the branch that holds the gather of line 144.
Gathers(is_training, positives_supplied, loss) ==
    ComputeLoss(is_training, positives_supplied) /\ loss

\* The embeddings every replica holds once the gather has completed: the
\* concatenation of the embeddings of all the replicas that took part.
Gathered(participants) == participants

PInit ==
    /\ replicas = [r \in Replicas |-> IdleReplica]
    /\ arrived = {}

\* forward, lines 117-124, on replica r.
ReplicaForward(r) ==
    /\ model.state = "ok" /\ replicas[r].pc = "idle"
    /\ \E t \in BOOLEAN, sup \in BOOLEAN, g \in 1..MaxGroups :
        LET is_masked == MaskAnchors(t, model.masked_language_modeling)
        IN  \E l \in EmbedderLosses(model.masked_language_modeling, is_masked) :
            replicas' = [replicas EXCEPT ![r] =
                [pc |-> "branch", training |-> t, positives |-> sup,
                 groups |-> IF sup THEN g ELSE 0, encoded |-> 0,
                 masked_lm_loss |-> l, embedded |-> {r}, loss_on |-> {},
                 output_dict |-> ForwardInternal("anchors", EmptyDict, TRUE, t,
                                                 model.feedforward),
                 events |-> <<>>]]
    /\ UNCHANGED arrived
    /\ UNCHANGED <<svars, mvars>>

\* forward, lines 128-131, on replica r.
ReplicaBranch(r) ==
    /\ replicas[r].pc = "branch"
    /\ LET me == replicas[r] IN
        replicas' = [replicas EXCEPT ![r] =
            IF ComputeLoss(me.training, me.positives)
               THEN [me EXCEPT
                        !.output_dict = Put(me.output_dict, "loss", ZeroLoss),
                        !.pc = IF Gathers(me.training, me.positives, model.loss)
                                  THEN "positives" ELSE "mlm"]
               ELSE [me EXCEPT !.pc = "return"]]
    /\ UNCHANGED arrived
    /\ UNCHANGED <<svars, mvars>>

\* forward, lines 133-137, on replica r: one group of positive chunks.
ReplicaEncodePositives(r) ==
    /\ replicas[r].pc = "positives" /\ replicas[r].encoded < replicas[r].groups
    /\ LET me == replicas[r] IN
        replicas' = [replicas EXCEPT ![r] =
            [me EXCEPT !.encoded = @ + 1,
                       !.output_dict = ForwardInternal("positives", me.output_dict,
                                           FALSE, me.training, model.feedforward)]]
    /\ UNCHANGED arrived
    /\ UNCHANGED <<svars, mvars>>

\* forward, lines 138-146, on replica r: enter the collective and block.
ReplicaGather(r) ==
    /\ replicas[r].pc = "positives" /\ replicas[r].encoded = replicas[r].groups
    /\ replicas' = [replicas EXCEPT ![r].pc = "gather",
                                    ![r].events = Append(@, "gather")]
    /\ arrived' = arrived \cup {r}
    /\ UNCHANGED <<svars, mvars>>

\* The collective completes once every replica has entered it: each of them
\* leaves with the embeddings of all.
GatherCompletes ==
    /\ arrived = Replicas
    /\ replicas' = [r \in Replicas |->
                      [replicas[r] EXCEPT !.pc = "miner",
                                          !.embedded = Gathered(arrived)]]
    /\ arrived' = {}
    /\ UNCHANGED <<svars, mvars>>

\* forward, lines 149-152, on replica r.
ReplicaMine(r) ==
    /\ replicas[r].pc = "miner"
    /\ replicas' = [replicas EXCEPT ![r].pc = "loss",
                                    ![r].events = IF model.miner
                                                     THEN Append(@, "miner") ELSE @]
    /\ UNCHANGED arrived
    /\ UNCHANGED <<svars, mvars>>

\* forward, line 153, on replica r: the loss of embedded_anchors / embedded_positives.
ReplicaContrastiveLoss(r) ==
    /\ replicas[r].pc = "loss"
    /\ LET me == replicas[r] IN
        replicas' = [replicas EXCEPT ![r] =
            [me EXCEPT !.pc = "mlm",
                       !.loss_on = me.embedded,
                       !.events = Append(@, "loss"),
                       !.output_dict = Put(me.output_dict, "loss",
                            AddTerm(me.output_dict["loss"], "contrastive"))]]
    /\ UNCHANGED arrived
    /\ UNCHANGED <<svars, mvars>>

\* forward, lines 155-156, on replica r.
ReplicaAddMaskedLMLoss(r) ==
    /\ replicas[r].pc = "mlm"
    /\ LET me == replicas[r] IN
        replicas' = [replicas EXCEPT ![r] =
            [me EXCEPT !.pc = "return",
                       !.output_dict = IF me.masked_lm_loss # None
                            THEN Put(me.output_dict, "loss",
                                     AddTerm(me.output_dict["loss"], "mlm_anchors"))
                            ELSE me.output_dict]]
    /\ UNCHANGED arrived
    /\ UNCHANGED <<svars, mvars>>

\* forward, line 158, on replica r.
ReplicaReturn(r) ==
    /\ replicas[r].pc = "return"
    /\ replicas' = [replicas EXCEPT ![r].pc = "done"]
    /\ UNCHANGED arrived
    /\ UNCHANGED <<svars, mvars>>

\* Every replica has returned: the step is over, the next one may begin.
StepEnds ==
    /\ \A r \in Replicas : replicas[r].pc = "done"
    /\ replicas' = [r \in Replicas |-> IdleReplica]
    /\ UNCHANGED arrived
    /\ UNCHANGED <<svars, mvars>>

Forwards == \E r \in Replicas : ReplicaForward(r)
Branches == \E r \in Replicas : ReplicaBranch(r)
EncodesPositives == \E r \in Replicas : ReplicaEncodePositives(r)
EntersGather == \E r \in Replicas : ReplicaGather(r)
Mines == \E r \in Replicas : ReplicaMine(r)
ComputesContrastiveLoss == \E r \in Replicas : ReplicaContrastiveLoss(r)
AddsMaskedLMLoss == \E r \in Replicas : ReplicaAddMaskedLMLoss(r)
Returns == \E r \in Replicas : ReplicaReturn(r)

ParallelNext ==
    \/ Construct
    \/ Forwards
    \/ Branches
    \/ EncodesPositives
    \/ EntersGather
    \/ GatherCompletes
    \/ Mines
    \/ ComputesContrastiveLoss
    \/ AddsMaskedLMLoss
    \/ Returns
    \/ StepEnds

Init == SInit /\ MInit /\ PInit
Next == SNext

\* The span sampler.
Spec == Init /\ [][Next]_vars
\* The training step.
SpecEncoder == Init /\ [][EncoderNext]_vars
\* The data-parallel training step.
SpecParallel == Init /\ [][ParallelNext]_vars

(***************************************************************************)
(* Properties of the span sampler, checked under Spec.                     *)
(***************************************************************************)
\* The invariant on the arguments: num_tokens >= 10 and
\* 0 < min_span_len <= max_span_len <= num_tokens.
ValidArgs ==
    /\ args.num_tokens >= 10
    /\ 0 < args.min_span_len
    /\ args.min_span_len <= args.max_span_len
    /\ args.max_span_len <= args.num_tokens

SpanLen(sp) == sp.end - sp.start
\* A non-empty range inside [0, num_tokens).
NonEmptyInDocument(sp) ==
    0 <= sp.start /\ sp.start < sp.end /\ sp.end <= args.num_tokens
PositiveIdx == 1..Len(positives)

\* C1: under the free strategy with valid arguments the call never raises, every
\* range it draws is non-empty and inside the document, it returns the anchor and
\* exactly num_spans positives, and with min_span_len = max_span_len = num_tokens
\* the anchor is the whole document.
C1_FreeSamplingTotal ==
    (args.sampling_strategy = "free" /\ ValidArgs) =>
        /\ outcome \in {"none", "returned"}
        /\ anchor.set => NonEmptyInDocument(anchor)
        /\ \A i \in PositiveIdx : NonEmptyInDocument(positives[i])
        /\ outcome = "returned" =>
              anchor.set /\ Len(positives) = args.num_spans
        /\ (anchor.set /\ args.min_span_len = args.num_tokens) =>
              (anchor.start = 0 /\ anchor.end = args.num_tokens)

C1_Witness ==
    /\ args.sampling_strategy = "free" /\ ValidArgs
    /\ outcome = "returned"
    /\ Len(positives) >= 1
    /\ args.num_tokens = 10 /\ args.min_span_len = 10 /\ args.max_span_len = 10

\* C2: under the subsuming strategy with valid arguments a call either raises the
\* range error, exactly when the positive length just drawn exceeds the anchor
\* length, or every positive it holds lies inside the anchor range.
C2_SubsumingOutcomes ==
    (args.sampling_strategy = "subsuming" /\ ValidArgs) =>
        /\ outcome \in {"none", "returned", "RangeError"}
        /\ drawn_length # <<>> =>
              (outcome = "RangeError" <=> drawn_length[1] > SpanLen(anchor))
        /\ \A i \in PositiveIdx :
              /\ anchor.start <= positives[i].start
              /\ positives[i].end <= anchor.end

C2_Witness ==
    /\ args.sampling_strategy = "subsuming" /\ ValidArgs
    /\ outcome = "returned"
    /\ Len(positives) >= 1
    /\ positives[1].start > anchor.start
    /\ positives[1].end < anchor.end

C4_InvalidInputBeforeSampling ==
    (pc # "idle" /\ (\/ args.num_tokens < 10
                     \/ args.min_span_len > args.max_span_len
                     \/ args.max_span_len > args.num_tokens)) =>
        /\ pc = "done"
        /\ outcome = "InvalidInput"
        /\ draws = 0
        /\ warnCalls = 0
        /\ ~anchor.set
        /\ positives = <<>>

C4_Witness ==
    /\ outcome = "InvalidInput"
    /\ args.num_tokens >= 10
    /\ args.min_span_len <= args.max_span_len
    /\ args.max_span_len > args.num_tokens
    /\ warned

\* C8: a call with min_span_len <= 0 (num_tokens >= 10 and
\* min_span_len <= max_span_len <= num_tokens) raises, it never returns.
C8_NonPositiveMinRaises ==
    (/\ pc = "done"
     /\ args.num_tokens >= 10
     /\ args.min_span_len <= 0
     /\ args.min_span_len <= args.max_span_len
     /\ args.max_span_len <= args.num_tokens) =>
        outcome # "returned"

\* C9: with valid arguments, under every strategy, the anchor and every positive
\* has a length between min_span_len and max_span_len.
C9_LengthsWithinMinMax ==
    ValidArgs =>
        /\ anchor.set =>
              (args.min_span_len <= SpanLen(anchor)
                  /\ SpanLen(anchor) <= args.max_span_len)
        /\ \A i \in PositiveIdx :
              /\ args.min_span_len <= SpanLen(positives[i])
              /\ SpanLen(positives[i]) <= args.max_span_len

\* C10: under the adjacent strategy with valid arguments the list of valid starts
\* is never empty: the call never fails picking a start.
C10_AdjacentNeverRaises ==
    (args.sampling_strategy = "adjacent" /\ ValidArgs) =>
        outcome \in {"none", "returned"}

(***************************************************************************)
(* Properties of the training step, checked under SpecEncoder.             *)
(***************************************************************************)
Keys == DOMAIN output_dict

\* C5: construction fails exactly when there is neither a contrastive loss nor
\* the masked language objective, and forward only ever runs on a model that has
\* one of the two.
C5_ConfigurationErrorAtConstruction ==
    /\ model.state # "none" =>
          (model.state = "ConfigurationError"
              <=> (~model.loss /\ ~model.masked_language_modeling))
    /\ fpc # "idle" => (model.loss \/ model.masked_language_modeling)

C5_Witness ==
    /\ model.state = "ConfigurationError"
    /\ ~model.loss /\ ~model.masked_language_modeling
    /\ fpc = "idle"

\* C6: the keys of the returned dictionary: outside training no loss, always
\* embeddings, projections exactly with a projection head; in training neither
\* embeddings nor projections, and loss exactly when positives are supplied.
\* Embeddings and projections only ever come from the anchors.
C6_OutputKeys ==
    /\ fpc = "done" =>
          IF training
             THEN /\ "embeddings" \notin Keys
                  /\ "projections" \notin Keys
                  /\ "loss" \in Keys <=> batch.positives
             ELSE /\ "loss" \notin Keys
                  /\ "embeddings" \in Keys
                  /\ "projections" \in Keys <=> model.feedforward
    /\ "embeddings" \in Keys => output_dict["embeddings"] = "anchors"
    /\ "projections" \in Keys => output_dict["projections"] = "anchors"

C6_Witness ==
    /\ fpc = "done"
    /\ ~training
    /\ batch.positives
    /\ model.feedforward
    /\ Keys = {"embeddings", "projections"}

\* C7: the loss returned by a training call with positives is the contrastive
\* loss (when one is configured) plus the masked language loss of the anchors
\* (when the embedder returned one); the loss of the positive chunks is never
\* added and the sum is never the initial 0.
C7_LossComposition ==
    (fpc = "done" /\ training /\ batch.positives) =>
        /\ output_dict["loss"] =
              [contrastive |-> IF model.loss THEN 1 ELSE 0,
               mlm_anchors |-> IF fwd.masked_lm_loss # None THEN 1 ELSE 0,
               mlm_positives |-> 0]
        /\ output_dict["loss"] # ZeroLoss

C7_Witness ==
    /\ fpc = "done" /\ training /\ batch.positives
    /\ model.loss
    /\ fwd.discarded > 0
    /\ output_dict["loss"] =
          [contrastive |-> 1, mlm_anchors |-> 1, mlm_positives |-> 0]

(***************************************************************************)
(* Properties of the data-parallel step, checked under SpecParallel.       *)
(***************************************************************************)
\* The replica is in training mode, got positives and has a contrastive loss.
TrainsContrastive(r) ==
    replicas[r].training /\ replicas[r].positives /\ model.loss

GatherCalls(r) ==
    Cardinality({i \in 1..Len(replicas[r].events) : replicas[r].events[i] = "gather"})

Started(r) == replicas[r].pc # "idle"
Waiting(r) == replicas[r].pc = "gather"
AllStartedAlike ==
    /\ \A r \in Replicas : Started(r)
    /\ \A r, q \in Replicas : TrainsContrastive(r) <=> TrainsContrastive(q)

\* C11: a replica calls the gather once when it trains with positives and a
\* contrastive loss and never otherwise, after all its positive groups are
\* encoded and before the miner and the loss (miner first); its loss is computed
\* on the embeddings of all replicas; a replica of which the condition holds is
\* never past the collective while another waits in it, and when the condition is
\* the same on all replicas no replica is left waiting: the step can go on.
C11_GatherOncePerReplica ==
    /\ \A r \in Replicas :
        LET me == replicas[r] IN
        /\ GatherCalls(r) <= 1
        /\ (Started(r) /\ ~TrainsContrastive(r)) => GatherCalls(r) = 0
        /\ me.pc \in {"mlm", "return", "done"} =>
              GatherCalls(r) = (IF TrainsContrastive(r) THEN 1 ELSE 0)
        /\ GatherCalls(r) = 1 => (me.encoded = me.groups /\ me.groups >= 1)
        /\ me.events \in {<<>>, <<"gather">>, <<"gather", "miner">>,
                          <<"gather", "loss">>, <<"gather", "miner", "loss">>}
        /\ me.events = <<"gather", "loss">> => ~model.miner
        /\ me.events = <<"gather", "miner", "loss">> => model.miner
        /\ (me.events # <<>> /\ me.events[Len(me.events)] = "loss") =>
              me.loss_on = Replicas
        /\ Waiting(r) =>
              \A q \in Replicas :
                  (Started(q) /\ TrainsContrastive(q)) =>
                      replicas[q].pc \in {"branch", "positives", "gather"}
    /\ (AllStartedAlike /\ \E r \in Replicas : Waiting(r)) => ENABLED ParallelNext

C11_Witness ==
    /\ NumReplicas >= 2
    /\ \A r \in Replicas :
        /\ replicas[r].pc = "done"
        /\ replicas[r].groups = MaxGroups
        /\ replicas[r].events = <<"gather", "miner", "loss">>
        /\ replicas[r].loss_on = Replicas

\* A replica is left waiting in the gather by one that returned without it.
LeftWaiting ==
    \E r, q \in Replicas :
        Waiting(r) /\ replicas[q].pc = "done" /\ GatherCalls(q) = 0

====
